---- MODULE Spec2Model ----
(***************************************************************************)
(* A model of snakeoil.osutils: ensure_dirs (directory provisioning) and   *)
(* FsLock (flock based advisory lock).                                     *)
(*                                                                         *)
(* ensure_dirs: the requested path is the chain /d1/.../dDepth; entry 0 is  *)
(* the root directory and entry k is the k-th segment, so that the python   *)
(* variable `base` (a path string built by join) is the index of its last   *)
(* segment and `apath` is the index Depth.  Every system call is modelled   *)
(* with its possible outcomes: success, or an OSError.                      *)
(***************************************************************************)
EXTENDS Integers, Sequences, FiniteSets, TLC

\* ------------------------------------------------------------------ bounds
\* number of segments of the requested path
Depth == 3
\* number of FsLock handles on the one lock path
NumHandles == 2

\* ------------------------------------------------------- mode arithmetic
RECURSIVE BitAnd(_, _)
\* python's a & b on non-negative integers
BitAnd(a, b) ==
    IF a = 0 \/ b = 0 THEN 0
    ELSE (a % 2) * (b % 2) + 2 * BitAnd(a \div 2, b \div 2)

\* python's a | b on non-negative integers
BitOr(a, b) == a + b - BitAnd(a, b)

\* stat.S_ISGID
S_ISGID == \o2000
\* stat.S_IFMT, stat.S_IFDIR, stat.S_IFREG: the file type bits of st_mode
S_IFMT == \o170000
S_IFDIR == \o40000
S_IFREG == \o100000
\* the permission bits chmod keeps (07777)
PermMask == \o7777
\* owner write+execute (0300), the bits ensure_dirs needs on a directory
OwnerWX == \o300
\* the temporary mode of a directory created under force_temp_perms (0700)
TempMode == \o700
\* the unspecified uid/gid argument (-1)
Unspecified == 0 - 1

\* stat.S_ISDIR(st_mode)
S_ISDIR(m) == BitAnd(m, S_IFMT) = S_IFDIR

\* ------------------------------------------------------------ filesystem
Absent == [kind |-> "absent", mode |-> 0, uid |-> 0, gid |-> 0]

\* the root directory
RootDir == [kind |-> "dir", mode |-> \o755, uid |-> 0, gid |-> 0]

\* the directories a segment may be before the call: an ordinary one owned
\* by 1000:100, one that lacks owner write, one with the set-group-id mode
\* bit, and one whose numeric gid has the bit 02000
ExistingDirs ==
    { [kind |-> "dir", mode |-> \o755,  uid |-> 1000, gid |-> 100],
      [kind |-> "dir", mode |-> \o555,  uid |-> 0,    gid |-> 0],
      [kind |-> "dir", mode |-> \o2755, uid |-> 0,    gid |-> 0],
      [kind |-> "dir", mode |-> \o755,  uid |-> 0,    gid |-> 1024] }

\* a regular file
RegularFile == [kind |-> "file", mode |-> \o644, uid |-> 0, gid |-> 0]

\* what another process creates at a segment between our stat and our mkdir
RacedEntries ==
    { [kind |-> "dir", mode |-> \o755, uid |-> 0, gid |-> 0], RegularFile }

\* effective uid and gid of the calling process: the owner of what it creates
ProcUid == 0
ProcGid == 0

\* a tree: below an entry that is not a directory nothing exists
WellFormed(f) ==
    /\ f[0] = RootDir
    /\ \A k \in 1..Depth : f[k - 1].kind # "dir" => f[k] = Absent

FsStates ==
    { f \in [0..Depth -> ExistingDirs \cup {RootDir, RegularFile, Absent}] :
        WellFormed(f) }

\* the arguments of ensure_dirs
ArgModes == {\o755, \o500}
ArgOwners == { <<Unspecified, Unspecified>>, <<1000, 100>>, <<1000, Unspecified>> }
InitialUmask == \o22

\* st.st_mode of an entry: file type bits plus permission bits
StMode(e) == (IF e.kind = "dir" THEN S_IFDIR ELSE S_IFREG) + e.mode

\* the result of a successful os.stat
StatOf(e) == [st_mode |-> StMode(e), st_uid |-> e.uid, st_gid |-> e.gid]

NoStat == [st_mode |-> 0, st_uid |-> 0, st_gid |-> 0]

\* os.stat(path) can succeed: the entry exists
StatSucceeds(f, k) == f[k].kind # "absent"

\* os.stat(path) can raise OSError: nothing is there, or the OS refuses (the
\* root directory can always be stat'ed)
StatRaises(f, k) == f[k].kind = "absent" \/ k # 0

\* os.chmod(path, m) succeeding: the kernel keeps the permission bits of m
Chmod(f, k, m) == [f EXCEPT ![k].mode = BitAnd(m, PermMask)]

\* os.chown(path, uid, gid) succeeding: -1 leaves the id unchanged
Chown(f, k, u, g) ==
    [f EXCEPT ![k].uid = IF u = Unspecified THEN @ ELSE u,
              ![k].gid = IF g = Unspecified THEN @ ELSE g]

\* os.mkdir(path, m) succeeding under umask um
Mkdir(f, k, m, um) ==
    [f EXCEPT ![k] = [kind |-> "dir", mode |-> m - BitAnd(m, um),
                      uid |-> ProcUid, gid |-> ProcGid]]

\* ------------------------------------------------------------- variables
VARIABLES
    fs,             \* the filesystem: entry k of the requested path
    fs0,            \* the filesystem when ensure_dirs was called
    args,           \* gid, uid, mode, minimal
    pc,             \* position in ensure_dirs
    i,              \* the segment the walk's for loop is at
    base,           \* python's `base`
    st,             \* python's `st`
    resets,         \* python's `resets`: a sequence of (base, mode)
    sticky_parent,  \* python's `sticky_parent`
    um,             \* python's `um`, the saved umask
    umask,          \* the process umask
    result,         \* "none", "true", "false", or "raised"
    created,        \* segments this call's mkdir created
    calls,          \* the chmod and chown calls issued: <<name, segment>>
    failed,         \* the places where a system call failed with an OS error
    raced,          \* whether another process created a segment under us
    handle,         \* FsLock: each handle's state
    fileExists,     \* FsLock: whether the lock path exists
    oslock,         \* FsLock: the flock held by each handle's descriptor
    waiting,        \* FsLock: the flock request a handle is blocked in
    ret,            \* FsLock: what each handle's last call returned or raised
    granted,        \* FsLock: the lock each handle's caller was last told it has
    oserr,          \* FsLock: the system call of each handle's last call that
                    \* failed with an error other than EAGAIN
    norm,           \* native_normpath: the path given and what it returned
    access          \* fallback_access: the query and what it returned

ensureVars == <<fs, fs0, args, pc, i, base, st, resets, sticky_parent, um,
                umask, result, created, calls, failed, raced>>
lockVars == <<handle, fileExists, oslock, waiting, ret, granted, oserr>>
pureVars == <<norm, access>>
vars == <<ensureVars, lockVars, pureVars>>


\* ------------------------------------------------------------ ensure_dirs
\* mode & 0300 != 0300: the directory would lack owner write or execute
LacksOwnerWX(m) == BitAnd(m, OwnerWX) # OwnerWX

\* force_temp_perms
ForceTempPerms(mode) == LacksOwnerWX(mode)

\* os.umask(0) at the head of the walk: the umask the walk runs under
UmaskForWalk(u) == 0

\* a finally clause that leaves the umask as the walk set it
RestoreUmaskKeepsCurrent(saved, current) == current

\* finally: os.umask(um)
RestoreUmask(saved, current) == saved

\* sticky_parent = (st.st_gid & stat.S_ISGID)
StickyParent(s) == BitAnd(s.st_gid, S_ISGID)

\* without the except clause around the chmod of line 132
CaughtSitesChmodUncaught ==
    { "mkdir", "safe_mkdir_stat", "chown_create", "cleanup", "existing" }

\* without an except clause above the os.stat of _safe_mkdir
CaughtSitesSafeStatUncaught ==
    { "chmod_walk", "mkdir", "chown_create", "cleanup", "existing" }

\* the places whose OSError an `except OSError` clause of ensure_dirs (or of
\* _safe_mkdir) turns into `return False`
CaughtSites ==
    { "chmod_walk", "mkdir", "safe_mkdir_stat", "chown_create", "cleanup",
      "existing" }

\* what an OSError raised at `site` becomes
OnOSError(site) == IF site \in CaughtSites THEN "false" ELSE "raised"

\* _safe_mkdir returning False for every OSError of os.mkdir, EEXIST included
SafeMkdirFailsOnExisting(f, k, m, u) ==
    IF f[k].kind = "absent"
    THEN { [ret |-> "true", fs |-> Mkdir(f, k, m, u), made |-> TRUE, err |-> "none"] :
             ok \in IF f[k - 1].kind = "dir" THEN {TRUE} ELSE {} }
         \cup
         { [ret |-> OnOSError("mkdir"), fs |-> f, made |-> FALSE, err |-> "mkdir"] }
    ELSE { [ret |-> OnOSError("mkdir"), fs |-> f, made |-> FALSE, err |-> "mkdir"],
           [ret |-> "false", fs |-> f, made |-> FALSE, err |-> "none"] }

\* _safe_mkdir(path, m): its possible outcomes on filesystem f under the
\* umask u.  ret is "true", "false" or "oserror" (the stat of line 86 raised)
SafeMkdir(f, k, m, u) ==
    IF f[k].kind = "absent"
    THEN { [ret |-> "true", fs |-> Mkdir(f, k, m, u), made |-> TRUE, err |-> "none"] :
             ok \in IF f[k - 1].kind = "dir" THEN {TRUE} ELSE {} }
         \cup
         { [ret |-> OnOSError("mkdir"), fs |-> f, made |-> FALSE, err |-> "mkdir"] }
    ELSE { \* errno other than EEXIST
           [ret |-> OnOSError("mkdir"), fs |-> f, made |-> FALSE, err |-> "mkdir"],
           \* EEXIST, and the entry is stat'ed
           [ret |-> IF S_ISDIR(StatOf(f[k]).st_mode) THEN "true" ELSE "false",
            fs |-> f, made |-> FALSE, err |-> "none"],
           \* EEXIST, and os.stat raises
           [ret |-> "oserror", fs |-> f, made |-> FALSE, err |-> "safe_mkdir_stat"] }

\* a cleanup phase that never chmods
ApplyResetsSkipped(f, rs, n) == f

RECURSIVE ApplyResets(_, _, _)
\* for base, m in reversed(resets): os.chmod(base, m), the first n of them
ApplyResets(f, rs, n) ==
    IF n = 0 THEN f
    ELSE ApplyResets(Chmod(f, rs[Len(rs)].base, rs[Len(rs)].m),
                     SubSeq(rs, 1, Len(rs) - 1), n - 1)

\* the segments of the first n entries of reversed(resets)
ResetTargets(rs, n) == { rs[k].base : k \in (Len(rs) - n + 1)..Len(rs) }

\* python's `base` after n iterations of `for base, m in reversed(resets)`
BaseAfterResets(b, rs, n) == IF n = 0 THEN b ELSE rs[Len(rs) - n + 1].base

\* the walk's try ... finally: leave with a value, restoring the umask
Exit(v) ==
    /\ pc' = "done"
    /\ result' = v
    /\ umask' = RestoreUmask(um, umask)
    /\ i' = i

\* the for loop goes on to the next segment, or ends
Continue ==
    /\ IF i = Depth THEN pc' = "cleanup" /\ i' = i
                    ELSE pc' = "walk" /\ i' = i + 1
    /\ UNCHANGED <<result, umask>>

EnsureInit ==
    /\ fs \in FsStates
    /\ fs0 = fs
    /\ args \in { [gid |-> o[2], uid |-> o[1], mode |-> m, minimal |-> b] :
                    o \in ArgOwners, m \in ArgModes, b \in BOOLEAN }
    /\ pc = "start"
    /\ i = 0
    /\ base = 0
    /\ st = NoStat
    /\ resets = <<>>
    /\ sticky_parent = 0
    /\ um = 0
    /\ umask = InitialUmask
    /\ result = "none"
    /\ created = {}
    /\ calls = {}
    /\ failed = {}
    /\ raced = FALSE

\* lines 109-119: st = os.stat(path), and on OSError the set-up of the walk
InitialStat ==
    /\ pc = "start"
    /\ \/ /\ StatSucceeds(fs, Depth)
          /\ st' = StatOf(fs[Depth])
          /\ pc' = "existing"
          /\ UNCHANGED <<i, base, resets, sticky_parent, um, umask, failed>>
       \/ /\ StatRaises(fs, Depth)
          /\ pc' = "walk"
          /\ um' = umask
          /\ umask' = UmaskForWalk(umask)
          /\ resets' = <<>>
          /\ sticky_parent' = 0
          /\ i' = 0
          /\ base' = 0
          /\ failed' = IF fs[Depth].kind # "absent"
                       THEN failed \cup {"initial_stat"} ELSE failed
          /\ st' = st
    /\ UNCHANGED <<fs, fs0, args, result, created, calls, raced, lockVars, pureVars>>

\* lines 121-124 and 138: base = join(base, directory); st = os.stat(base)
WalkStat ==
    /\ pc = "walk"
    /\ base' = i
    /\ \/ /\ StatSucceeds(fs, i)
          /\ st' = StatOf(fs[i])
          /\ pc' = "visit"
          /\ failed' = failed
       \/ /\ StatRaises(fs, i)
          /\ pc' = "create"
          /\ st' = st
          /\ failed' = IF fs[i].kind # "absent"
                       THEN failed \cup {"walk_stat"} ELSE failed
    /\ UNCHANGED <<fs, fs0, args, i, resets, sticky_parent, um, umask, result,
                   created, calls, raced, lockVars, pureVars>>

\* lines 125-136: the segment exists
WalkVisit ==
    /\ pc = "visit"
    /\ IF ~S_ISDIR(st.st_mode)
       THEN /\ Exit("false")
            /\ UNCHANGED <<fs, resets, sticky_parent, calls, failed>>
       ELSE IF base # Depth
       THEN IF LacksOwnerWX(st.st_mode)
            THEN \/ /\ fs' = Chmod(fs, base, BitOr(st.st_mode, OwnerWX))
                    /\ resets' = Append(resets, [base |-> base, m |-> st.st_mode])
                    /\ sticky_parent' = StickyParent(st)
                    /\ calls' = calls \cup {<<"chmod", base>>}
                    /\ failed' = failed
                    /\ Continue
                 \/ /\ Exit(OnOSError("chmod_walk"))
                    /\ calls' = calls \cup {<<"chmod", base>>}
                    /\ failed' = failed \cup {"chmod_walk"}
                    /\ UNCHANGED <<fs, resets, sticky_parent>>
            ELSE /\ sticky_parent' = StickyParent(st)
                 /\ Continue
                 /\ UNCHANGED <<fs, resets, calls, failed>>
       ELSE /\ Continue
            /\ UNCHANGED <<fs, resets, sticky_parent, calls, failed>>
    /\ UNCHANGED <<fs0, args, base, st, um, created, raced, lockVars, pureVars>>

\* another process creates the segment between the stat and the mkdir
RaceCreate ==
    /\ pc = "create"
    /\ ~raced
    /\ fs[base].kind = "absent"
    /\ fs[base - 1].kind = "dir"
    /\ \E e \in RacedEntries : fs' = [fs EXCEPT ![base] = e]
    /\ raced' = TRUE
    /\ UNCHANGED <<fs0, args, pc, i, base, st, resets, sticky_parent, um, umask,
                   result, created, calls, failed, lockVars, pureVars>>

\* lines 139-153: the segment could not be stat'ed
WalkCreate ==
    /\ pc = "create"
    /\ LET force == ForceTempPerms(args.mode)
           m == IF force THEN TempMode ELSE args.mode
       IN \E o \in SafeMkdir(fs, base, m, umask) :
            /\ created' = IF o.made THEN created \cup {base} ELSE created
            /\ IF o.ret # "true"
               THEN /\ Exit(IF o.ret = "oserror" THEN OnOSError(o.err) ELSE o.ret)
                    /\ fs' = o.fs
                    /\ failed' = IF o.err # "none" THEN failed \cup {o.err} ELSE failed
                    /\ UNCHANGED <<resets, calls>>
               ELSE IF force
               THEN /\ resets' = Append(resets, [base |-> base, m |-> args.mode])
                    /\ fs' = o.fs
                    /\ Continue
                    /\ UNCHANGED <<calls, failed>>
               ELSE /\ resets' = IF base = Depth /\ sticky_parent # 0
                                 THEN Append(resets, [base |-> base, m |-> args.mode])
                                 ELSE resets
                    /\ IF args.gid # Unspecified \/ args.uid # Unspecified
                       THEN /\ calls' = calls \cup {<<"chown", base>>}
                            /\ \/ /\ fs' = Chown(o.fs, base, args.uid, args.gid)
                                  /\ failed' = failed
                                  /\ Continue
                               \/ /\ fs' = o.fs
                                  /\ failed' = failed \cup {"chown_create"}
                                  /\ Exit(OnOSError("chown_create"))
                       ELSE /\ fs' = o.fs
                            /\ Continue
                            /\ UNCHANGED <<calls, failed>>
    /\ UNCHANGED <<fs0, args, base, st, sticky_parent, um, raced, lockVars, pureVars>>

\* lines 155-161: drain the resets, then chown `base`
Cleanup ==
    /\ pc = "cleanup"
    /\ \E n \in 0..Len(resets) :
         LET f1 == ApplyResets(fs, resets, n)
             b1 == BaseAfterResets(base, resets, n)
             done == calls \cup { <<"chmod", k>> : k \in ResetTargets(resets, n) }
         IN IF n < Len(resets)
            THEN \* the next chmod raises
                 /\ fs' = f1
                 /\ base' = resets[Len(resets) - n].base
                 /\ calls' = done \cup {<<"chmod", resets[Len(resets) - n].base>>}
                 /\ failed' = failed \cup {"cleanup"}
                 /\ Exit(OnOSError("cleanup"))
            ELSE /\ base' = b1
                 /\ IF args.uid # Unspecified \/ args.gid # Unspecified
                    THEN /\ calls' = done \cup {<<"chown", b1>>}
                         /\ \/ /\ fs' = Chown(f1, b1, args.uid, args.gid)
                               /\ failed' = failed
                               /\ Exit("true")
                            \/ /\ fs' = f1
                               /\ failed' = failed \cup {"cleanup"}
                               /\ Exit(OnOSError("cleanup"))
                    ELSE /\ fs' = f1
                         /\ calls' = done
                         /\ failed' = failed
                         /\ Exit("true")
    /\ UNCHANGED <<fs0, args, st, resets, sticky_parent, um, created, raced,
                   lockVars, pureVars>>

\* chown whenever uid or gid is given, as line 158 does
NeedsChownWhenGiven(s, uid, gid) == gid # Unspecified \/ uid # Unspecified

\* lines 168-169: whether the existing path's owner has to change
NeedsChown(s, uid, gid) ==
    \/ gid # Unspecified /\ gid # s.st_gid
    \/ uid # Unspecified /\ uid # s.st_uid

\* minimal ignored: the mode is always set to exactly the requested one
ExistingChmodExact(s, mode, minimal) ==
    IF mode # BitAnd(s.st_mode, PermMask) THEN mode ELSE 0 - 1

\* lines 171-175: the mode to chmod the existing path to; -1 when none
ExistingChmod(s, mode, minimal) ==
    IF minimal
    THEN IF mode # BitAnd(s.st_mode, mode) THEN BitOr(s.st_mode, mode) ELSE 0 - 1
    ELSE IF mode # BitAnd(s.st_mode, PermMask) THEN mode ELSE 0 - 1

\* lines 166-178: the path could be stat'ed
AdjustExisting ==
    /\ pc = "existing"
    /\ LET chown == NeedsChown(st, args.uid, args.gid)
           target == ExistingChmod(st, args.mode, args.minimal)
           f1 == IF chown THEN Chown(fs, Depth, args.uid, args.gid) ELSE fs
           c1 == IF chown THEN calls \cup {<<"chown", Depth>>} ELSE calls
       IN \/ \* os.chown raises
             /\ chown
             /\ fs' = fs
             /\ calls' = c1
             /\ failed' = failed \cup {"existing"}
             /\ result' = OnOSError("existing")
          \/ \* os.chmod raises
             /\ target # 0 - 1
             /\ fs' = f1
             /\ calls' = c1 \cup {<<"chmod", Depth>>}
             /\ failed' = failed \cup {"existing"}
             /\ result' = OnOSError("existing")
          \/ /\ fs' = IF target # 0 - 1 THEN Chmod(f1, Depth, target) ELSE f1
             /\ calls' = IF target # 0 - 1 THEN c1 \cup {<<"chmod", Depth>>} ELSE c1
             /\ failed' = failed
             /\ result' = "true"
    /\ pc' = "done"
    /\ UNCHANGED <<fs0, args, i, base, st, resets, sticky_parent, um, umask,
                   created, raced, lockVars, pureVars>>

\* FsLock is not in use while ensure_dirs is examined
LockIdle ==
    /\ handle = [h \in 1..NumHandles |-> [state |-> "idle", create |-> FALSE]]
    /\ fileExists = TRUE
    /\ oslock = [h \in 1..NumHandles |-> "un"]
    /\ waiting = [h \in 1..NumHandles |->
                    [call |-> "none", flags |-> "un", held |-> "un"]]
    /\ ret = [h \in 1..NumHandles |-> "none"]
    /\ granted = [h \in 1..NumHandles |-> "none"]
    /\ oserr = [h \in 1..NumHandles |-> "none"]

EnsureNext ==
    \/ InitialStat
    \/ WalkStat
    \/ WalkVisit
    \/ RaceCreate
    \/ WalkCreate
    \/ Cleanup
    \/ AdjustExisting

\* one call of ensure_dirs, from every filesystem and argument combination
\* neither native_normpath nor fallback_access is being called
NormIdle == [pc |-> "idle", path |-> <<>>, result |-> <<>>, again |-> <<>>]
AccessIdle == [pc |-> "idle"]

PureIdle ==
    /\ norm = NormIdle
    /\ access = AccessIdle

Init == EnsureInit /\ LockIdle /\ PureIdle

Spec == Init /\ [][EnsureNext]_vars


\* ------------------------------------------------- claims on ensure_dirs
Done == pc = "done"

\* the call took the walk (the initial stat raised)
Walked == Done /\ um = InitialUmask /\ (fs0[Depth].kind = "absent" \/ "initial_stat" \in failed)

\* the call took the branch of an existing path (the initial stat succeeded)
TookExisting == Done /\ fs0[Depth].kind # "absent" /\ "initial_stat" \notin failed

\* the mode every recorded reset asks for is the mode of its directory
ResetsApplied ==
    \A k \in 1..Len(resets) : fs[resets[k].base].mode = BitAnd(resets[k].m, PermMask)

\* C1: when ensure_dirs returns, true or false, every recorded permission
\* reset has been applied: each loosened directory has its original mode and
\* no created directory is left at the temporary mode.
C1_ResetsDrainedOnReturn == Done => ResetsApplied

C3_IntermediateFileFails ==
    (Done /\ \E k \in 1..(Depth - 1) : fs0[k].kind = "file") => result = "false"

C3_Witness ==
    /\ Done /\ result = "false"
    /\ fs0[Depth - 1].kind = "file"
    /\ failed = {}

\* C4: when the target path itself exists and is not a directory, ensure_dirs
\* returns false and leaves the entry's mode and ownership alone.
C4_FileTargetFails ==
    (Done /\ fs0[Depth].kind = "file") => (result = "false" /\ fs[Depth] = fs0[Depth])

\* the failures that are not a stat taken for "nothing exists"
HardFailures ==
    { "chmod_walk", "mkdir", "safe_mkdir_stat", "chown_create", "cleanup",
      "existing" }

\* C5 as stated: ensure_dirs never raises, and every OS-level failure of stat,
\* mkdir, chmod or chown at any step is reported as false.
C5_EveryFailureIsFalse ==
    Done => (result \in {"true", "false"} /\ (failed # {} => result = "false"))

\* C5 as amended: ensure_dirs never raises; every failure of chmod, of chown,
\* of mkdir other than "already exists", and of the stat after "already
\* exists" is reported as false; a failed stat of the path or of a segment of
\* the walk is taken as "nothing exists" and the call goes on.
C5_NeverRaises ==
    Done => (result \in {"true", "false"}
             /\ (failed \cap HardFailures # {} => result = "false"))

C5_Witness == Done /\ "safe_mkdir_stat" \in failed /\ result = "false"

\* the path was a directory that has every requested mode bit and the
\* requested owner and group
AlreadySufficient ==
    /\ fs0[Depth].kind = "dir"
    /\ BitAnd(fs0[Depth].mode, args.mode) = args.mode
    /\ args.uid \in {Unspecified, fs0[Depth].uid}
    /\ args.gid \in {Unspecified, fs0[Depth].gid}

C8_LeafOwned ==
    (Done /\ result = "true" /\ fs0[Depth].kind = "absent"
          /\ (args.uid # Unspecified \/ args.gid # Unspecified))
        => /\ args.uid # Unspecified => fs[Depth].uid = args.uid
           /\ args.gid # Unspecified => fs[Depth].gid = args.gid

\* C9: during the walk the process umask is 0, and on every return the umask
\* is what it was when ensure_dirs was called.
C9_UmaskScoped ==
    /\ pc \in {"walk", "visit", "create", "cleanup"} => umask = 0
    /\ Done => umask = InitialUmask

C9_Witness == Walked /\ result = "false" /\ "cleanup" \in failed


\* ----------------------------------------------------------------- FsLock
Handles == 1..NumHandles

\* fcntl.LOCK_EX, fcntl.LOCK_SH, fcntl.LOCK_UN
LOCK_EX == "ex"
LOCK_SH == "sh"
LOCK_UN == "un"

\* the flags acquire_write_lock, acquire_read_lock and release_*_lock pass
\* acquire_write_lock asking for a shared lock
WriteFlagsShared == LOCK_SH
WriteFlags == LOCK_EX
ReadFlags == LOCK_SH
ReleaseFlags == LOCK_UN

\* flock: whether the locks other descriptors hold stand in the way of `flags`
Conflicts(locks, h, flags) ==
    CASE flags = LOCK_EX -> \E g \in Handles \ {h} : locks[g] # LOCK_UN
      [] flags = LOCK_SH -> \E g \in Handles \ {h} : locks[g] = LOCK_EX
      [] OTHER -> FALSE

\* fcntl.flock(fd, flags), with LOCK_NB unless blocking: its outcomes.  A
\* request for the other kind of lock than the one held is a conversion; the
\* kernel may drop the held lock before it looks for conflicts, or keep it.
FlockOutcomes(locks, h, flags, blocking) ==
    LET conversion == locks[h] # LOCK_UN /\ locks[h] # flags
        after == IF conversion THEN {locks, [locks EXCEPT ![h] = LOCK_UN]}
                 ELSE {locks}
    IN {[res |-> "error", locks |-> locks]}
       \cup
       IF ~Conflicts(locks, h, flags)
       THEN {[res |-> "granted", locks |-> [locks EXCEPT ![h] = flags]]}
       ELSE {[res |-> IF blocking THEN "block" ELSE "eagain", locks |-> l] :
               l \in after}

\* _acquire_fd: os.open of the path, with O_CREAT under create; its outcomes
AcquireFd(hd, exists) ==
    {[ok |-> FALSE, exists |-> exists,
      exc |-> IF hd.create THEN "GenericFailed" ELSE "NonExistant"]}
    \cup
    IF hd.create \/ exists
    THEN {[ok |-> TRUE, exists |-> TRUE, exc |-> "none"]}
    ELSE {}

\* _enact_change raising GenericFailed for every IOError, EAGAIN included
EnactResultEagainRaises(res, blocking) ==
    CASE res = "granted" -> "true"
      [] res = "eagain" -> "GenericFailed"
      [] res = "error" -> IF blocking THEN "IOError" ELSE "GenericFailed"
      [] OTHER -> "none"

\* what _enact_change returns or raises for an outcome of flock
EnactResult(res, blocking) ==
    CASE res = "granted" -> "true"
      [] res = "eagain" -> "false"
      [] res = "error" -> IF blocking THEN "IOError" ELSE "GenericFailed"
      [] OTHER -> "none"

\* acquire_*_lock return what _enact_change returned; release_*_lock have no
\* return statement, so they return None unless _enact_change raised
Returned(call, v) == IF call = "none" /\ v \in {"true", "false"} THEN "none" ELSE v

\* no blocking call is pending.  `held` is the lock the handle held when it
\* made the call it is blocked in.
NotWaiting == [call |-> "none", flags |-> LOCK_UN, held |-> LOCK_UN]

\* _enact_change(flags, blocking) on handle h, called by the method `call`
\* ("write", "read", or "none" for a release)
EnactChange(h, call, flags, blocking) ==
    /\ handle[h].state \in {"unopened", "opened"}
    /\ waiting[h] = NotWaiting
    /\ \E o \in IF handle[h].state = "unopened"
                THEN AcquireFd(handle[h], fileExists)
                ELSE {[ok |-> TRUE, exists |-> fileExists, exc |-> "none"]} :
         IF ~o.ok
         THEN /\ ret' = [ret EXCEPT ![h] = o.exc]
              /\ oserr' = [oserr EXCEPT ![h] = "open"]
              /\ UNCHANGED <<handle, fileExists, oslock, waiting, granted>>
         ELSE /\ handle' = [handle EXCEPT ![h].state = "opened"]
              /\ fileExists' = o.exists
              /\ \E r \in FlockOutcomes(oslock, h, flags, blocking) :
                   /\ oslock' = r.locks
                   /\ ret' = [ret EXCEPT
                                ![h] = Returned(call, EnactResult(r.res, blocking))]
                   /\ waiting' = [waiting EXCEPT
                                    ![h] = IF r.res = "block"
                                           THEN [call |-> call, flags |-> flags,
                                                 held |-> oslock[h]]
                                           ELSE NotWaiting]
                   /\ granted' = [granted EXCEPT
                                    ![h] = IF r.res = "granted" THEN call ELSE @]
                   /\ oserr' = [oserr EXCEPT
                                  ![h] = IF r.res = "error" THEN "flock"
                                         ELSE "none"]
    /\ UNCHANGED <<ensureVars, pureVars>>

\* __init__ without the existence check
ConstructAccepts(create, exists) == FALSE

\* __init__ raising NonExistant: `if not create: if not os.path.exists(path)`
ConstructRaises(create, exists) == ~create /\ ~exists

\* FsLock(path, create): lines 406-422.  A construction that raises leaves no
\* object behind.
Construct(h) ==
    /\ handle[h].state = "idle"
    /\ \E c \in BOOLEAN :
         IF ConstructRaises(c, fileExists)
         THEN /\ handle' = [handle EXCEPT ![h] = [state |-> "destroyed", create |-> FALSE]]
              /\ ret' = [ret EXCEPT ![h] = "NonExistant"]
         ELSE /\ handle' = [handle EXCEPT ![h] = [state |-> "unopened", create |-> c]]
              /\ ret' = [ret EXCEPT ![h] = "none"]
    /\ UNCHANGED <<fileExists, oslock, waiting, granted, oserr, ensureVars,
                   pureVars>>

\* acquire_write_lock(blocking): lines 451-460
AcquireWrite(h) == \E b \in BOOLEAN : EnactChange(h, "write", WriteFlags, b)

\* acquire_read_lock(blocking): lines 462-471
AcquireRead(h) == \E b \in BOOLEAN : EnactChange(h, "read", ReadFlags, b)

\* release_write_lock(): lines 473-475
ReleaseWrite(h) == EnactChange(h, "none", ReleaseFlags, FALSE)

\* release_read_lock(): lines 477-479
ReleaseRead(h) == EnactChange(h, "none", ReleaseFlags, FALSE)

\* a kernel that never serves a request for the exclusive lock once it waits
FlockGrantedToReadersOnly(h) ==
    /\ waiting[h] # NotWaiting
    /\ waiting[h].flags = LOCK_SH
    /\ ~Conflicts(oslock, h, waiting[h].flags)
    /\ oslock' = [oslock EXCEPT ![h] = waiting[h].flags]
    /\ granted' = [granted EXCEPT ![h] = waiting[h].call]
    /\ ret' = [ret EXCEPT ![h] = "true"]
    /\ waiting' = [waiting EXCEPT ![h] = NotWaiting]
    /\ UNCHANGED <<handle, fileExists, oserr, ensureVars, pureVars>>

\* the kernel grants the lock a blocking flock waits for, and the call returns
FlockGranted(h) ==
    /\ waiting[h] # NotWaiting
    /\ ~Conflicts(oslock, h, waiting[h].flags)
    /\ oslock' = [oslock EXCEPT ![h] = waiting[h].flags]
    /\ granted' = [granted EXCEPT ![h] = waiting[h].call]
    /\ ret' = [ret EXCEPT ![h] = "true"]
    /\ waiting' = [waiting EXCEPT ![h] = NotWaiting]
    /\ UNCHANGED <<handle, fileExists, oserr, ensureVars, pureVars>>

\* __del__ closing the descriptor only when the release did not raise
DelClosesOnSuccess(res) == res # "error"

\* __del__: os.close(fd) is in the finally clause, so it runs whatever
\* release_read_lock did
DelCloses(res) == TRUE

\* what leaves __del__: the try has no except clause, so what
\* release_read_lock raised is raised again after the finally clause
DelRaises(res) == IF res = "error" THEN EnactResult(res, FALSE) ELSE "none"

\* the finalizer is not called by the program: WeakRefFinalizer, the
\* metaclass of FsLock, runs it when the object goes away, and nothing it
\* raises reaches the program
FinalizerOutcome(exc) == "none"

\* __del__: lines 481-488.  With no descriptor it does nothing; with one it
\* calls release_read_lock(), which is flock(fd, LOCK_UN | LOCK_NB), and then
\* os.close(fd), which drops whatever lock the descriptor still has.  A
\* descriptor that is not closed stays open, and keeps its lock, for as long
\* as the process lives.
Destroy(h) ==
    /\ handle[h].state \in {"unopened", "opened"}
    /\ waiting[h] = NotWaiting
    /\ IF handle[h].state = "unopened"
       THEN /\ handle' = [handle EXCEPT
                            ![h] = [state |-> "destroyed", create |-> FALSE]]
            /\ ret' = [ret EXCEPT ![h] = FinalizerOutcome("none")]
            /\ oserr' = [oserr EXCEPT ![h] = "none"]
            /\ UNCHANGED oslock
       ELSE \E r \in FlockOutcomes(oslock, h, ReleaseFlags, FALSE) :
              /\ handle' = [handle EXCEPT
                              ![h] = [state |-> IF DelCloses(r.res) THEN "closed"
                                                ELSE "leaked",
                                      create |-> FALSE]]
              /\ oslock' = IF DelCloses(r.res)
                           THEN [r.locks EXCEPT ![h] = LOCK_UN]
                           ELSE r.locks
              /\ ret' = [ret EXCEPT
                           ![h] = FinalizerOutcome(DelRaises(r.res))]
              /\ oserr' = [oserr EXCEPT
                             ![h] = IF r.res = "error" THEN "flock" ELSE "none"]
    /\ granted' = [granted EXCEPT ![h] = "none"]
    /\ UNCHANGED <<fileExists, waiting, ensureVars, pureVars>>

\* ensure_dirs is not running while FsLock is examined
EnsureIdle ==
    /\ fs = [k \in 0..Depth |-> IF k = 0 THEN RootDir ELSE Absent]
    /\ fs0 = fs
    /\ args = [gid |-> Unspecified, uid |-> Unspecified, mode |-> \o777,
               minimal |-> TRUE]
    /\ pc = "idle"
    /\ i = 0
    /\ base = 0
    /\ st = NoStat
    /\ resets = <<>>
    /\ sticky_parent = 0
    /\ um = 0
    /\ umask = InitialUmask
    /\ result = "none"
    /\ created = {}
    /\ calls = {}
    /\ failed = {}
    /\ raced = FALSE

LockInit ==
    /\ handle = [h \in Handles |-> [state |-> "idle", create |-> FALSE]]
    /\ fileExists \in BOOLEAN
    /\ oslock = [h \in Handles |-> LOCK_UN]
    /\ waiting = [h \in Handles |-> NotWaiting]
    /\ ret = [h \in Handles |-> "none"]
    /\ granted = [h \in Handles |-> "none"]
    /\ oserr = [h \in Handles |-> "none"]

LockNext ==
    \E h \in Handles :
        \/ Construct(h)
        \/ AcquireWrite(h)
        \/ AcquireRead(h)
        \/ ReleaseWrite(h)
        \/ ReleaseRead(h)
        \/ FlockGranted(h)
        \/ Destroy(h)

\* several handles on one path, their calls interleaved
LockSpecInit == LockInit /\ EnsureIdle /\ PureIdle

LockSpec == LockSpecInit /\ [][LockNext]_vars

\* a blocked fcntl.flock is served once the lock it asks for is free and stays
\* free: the kernel wakes the waiting request when a conflicting lock goes
\* away.  Nothing makes a handle call release or __del__, and nothing keeps
\* another handle from taking the lock first.
LockFairSpec ==
    /\ LockSpecInit
    /\ [][LockNext]_vars
    /\ \A h \in Handles : WF_vars(FlockGranted(h))

\* ---------------------------------------------------- claims on FsLock
\* C10: in every interleaving of acquire, release and destroy on several
\* handles of one path, at most one handle holds the write lock, and while a
\* handle holds it no other handle holds a read lock.
C10_WriteExclusive ==
    \A h \in Handles :
        granted[h] = "write" =>
            /\ oslock[h] = LOCK_EX
            /\ \A g \in Handles \ {h} : oslock[g] = LOCK_UN /\ granted[g] # "write"

C10_Witness ==
    \E h, g \in Handles :
        /\ h # g
        /\ granted[h] = "write"
        /\ handle[g].state = "opened" /\ ret[g] = "false"
        /\ handle[h].state = "opened"

\* C11: a handle that holds the read lock and calls acquire_write_lock
\* upgrades atomically: once the call has returned true the handle has the
\* exclusive lock, and from the request to its return no other handle has
\* the exclusive lock.
C11_AtomicUpgrade ==
    \A h \in Handles :
        /\ granted[h] = "write" => oslock[h] = LOCK_EX
        /\ (waiting[h].call = "write" /\ waiting[h].held = LOCK_SH) =>
               \A g \in Handles \ {h} : oslock[g] # LOCK_EX

\* a step of acquire_write_lock(False) or acquire_read_lock(False) on h, asking
\* for `flags`, whose descriptor is open or could be opened
NonBlockingRequest(h, call, flags) ==
    /\ EnactChange(h, call, flags, FALSE)
    /\ oserr'[h] # "open"

\* C12: a non-blocking acquire_write_lock or acquire_read_lock on a path whose
\* lock another handle holds incompatibly returns false, without blocking and
\* without raising; the caller does not get the lock and the other handles'
\* locks are as they were.  Any other failure of the lock request raises
\* GenericFailed.
C12_NonBlockingContention ==
    [][\A h \in Handles :
         \A req \in {<<"write", WriteFlags>>, <<"read", ReadFlags>>} :
           NonBlockingRequest(h, req[1], req[2]) =>
             /\ waiting'[h] = NotWaiting
             /\ oserr'[h] = "flock" => ret'[h] = "GenericFailed"
             /\ Conflicts(oslock, h, req[2]) =>
                   /\ oserr'[h] = "none" => ret'[h] = "false"
                   /\ oslock'[h] # req[2]
                   /\ granted'[h] = granted[h]
                   /\ \A g \in Handles \ {h} :
                         oslock'[g] = oslock[g] /\ granted'[g] = granted[g]
      ]_vars

C12_Witness ==
    \E h, g \in Handles :
        /\ h # g
        /\ oslock[g] = LOCK_EX /\ granted[g] = "write"
        /\ ret[g] = "GenericFailed" /\ oserr[g] = "flock"
        /\ handle[h].state = "opened" /\ ret[h] = "false" /\ oserr[h] = "none"
        /\ oslock[h] = LOCK_UN /\ waiting[h] = NotWaiting

\* a step of release_write_lock or release_read_lock on a handle that has
\* never opened its descriptor, in which the descriptor cannot be opened
ReleaseCannotOpen(h) ==
    /\ ReleaseWrite(h) \/ ReleaseRead(h)
    /\ handle[h].state = "unopened"
    /\ oserr'[h] = "open"

\* C13: a release call on a handle whose descriptor was never opened, where
\* the descriptor cannot be opened, is a no-op: it raises no error, leaves the
\* handle unopened and does not create the lock file.
C13_ReleaseUnopenedNoOp ==
    [][\A h \in Handles :
         ReleaseCannotOpen(h) =>
           /\ ret'[h] \notin {"GenericFailed", "NonExistant"}
           /\ handle'[h].state = "unopened"
           /\ fileExists' = fileExists
      ]_vars

\* C14: destroying a handle whose descriptor was opened attempts a release
\* and then closes the descriptor, which drops any lock it held, also when the
\* release attempt fails; destroying a handle that never opened a descriptor
\* opens, locks and closes nothing; and destruction never raises.
C14_DestroyReleasesAndCloses ==
    [][\A h \in Handles :
         Destroy(h) =>
           /\ ret'[h] = "none"
           /\ handle[h].state = "opened" =>
                 /\ handle'[h].state = "closed"
                 /\ oslock'[h] = LOCK_UN
                 /\ \A g \in Handles \ {h} : oslock'[g] = oslock[g]
           /\ handle[h].state = "unopened" =>
                 /\ handle'[h].state = "destroyed"
                 /\ oserr'[h] = "none"
                 /\ oslock' = oslock
                 /\ fileExists' = fileExists
      ]_vars

C14_Witness ==
    \E h, g \in Handles :
        /\ h # g
        /\ handle[h].state = "closed" /\ oserr[h] = "flock"
        /\ oslock[h] = LOCK_UN /\ ret[h] = "none"
        /\ handle[g].state = "destroyed" /\ ret[g] = "none"

\* C15: FsLock(path, create=False) on a path that does not exist raises
\* NonExistant at construction; construction with either value of create opens
\* no descriptor and creates no file: the handle starts unopened.
C15_ConstructionOpensNothing ==
    [][\A h \in Handles :
         Construct(h) =>
           /\ fileExists' = fileExists
           /\ oslock' = oslock
           /\ IF ret'[h] = "NonExistant"
              THEN handle'[h].state = "destroyed"
              ELSE handle'[h].state = "unopened" /\ ret'[h] = "none"
           /\ ~fileExists => ret'[h] = "NonExistant" \/ handle'[h].create
      ]_vars

C15_Witness ==
    \E h, g \in Handles :
        /\ ~fileExists
        /\ handle[h].state = "destroyed" /\ ret[h] = "NonExistant"
        /\ handle[g].state = "unopened" /\ handle[g].create
        /\ \A k \in Handles : oslock[k] = LOCK_UN


\* -------------------------------------------------------- fallback_access
\* os.F_OK, os.R_OK, os.W_OK, os.X_OK
F_OK == 0
R_OK == 4
W_OK == 2
X_OK == 1

\* python's a >> n on non-negative integers
ShiftRight(a, n) == a \div (2 ^ n)

\* the files fallback_access is asked about: every permission setting of a
\* regular file, owned by root or by a user
AccessFiles ==
    {[kind |-> "file", mode |-> m, uid |-> u, gid |-> 100] :
       m \in 0..PermMask % \o1000, u \in {0, 1000}}

\* os.getuid() and os.getgroups() of the calling process
AccessUids == {0, 1000, 2000}
AccessGroups == {{}, {100}, {200, 300}}

\* the `mode` argument: any union of R_OK, W_OK and X_OK, or F_OK
AccessRequests == 0..BitOr(R_OK, BitOr(W_OK, X_OK))

\* fallback_access letting a later triplet grant what the first one refuses
FallbackAccessFallsThrough(stt, mode, myuid, mygroups) ==
    IF mode = F_OK THEN TRUE
    ELSE IF myuid = 0
    THEN IF BitAnd(mode, X_OK) = 0 THEN TRUE ELSE BitAnd(stt.st_mode, 73) # 0
    ELSE \/ myuid = stt.st_uid
            /\ mode = BitAnd(mode, BitAnd(ShiftRight(stt.st_mode, 6), 7))
         \/ stt.st_gid \in mygroups
            /\ mode = BitAnd(mode, BitAnd(ShiftRight(stt.st_mode, 3), 7))
         \/ mode = BitAnd(mode, BitAnd(stt.st_mode, 7))

\* fallback_access(path, mode) once os.lstat(path) has returned stt, in a
\* process with uid myuid and groups mygroups: lines 496-527
FallbackAccess(stt, mode, myuid, mygroups) ==
    IF mode = F_OK THEN TRUE
    ELSE IF myuid = 0
    THEN IF BitAnd(mode, X_OK) = 0 THEN TRUE ELSE BitAnd(stt.st_mode, 73) # 0
    ELSE IF myuid = stt.st_uid
    THEN mode = BitAnd(mode, BitAnd(ShiftRight(stt.st_mode, 6), 7))
    ELSE IF stt.st_gid \in mygroups
    THEN mode = BitAnd(mode, BitAnd(ShiftRight(stt.st_mode, 3), 7))
    ELSE mode = BitAnd(mode, BitAnd(stt.st_mode, 7))

\* a call of fallback_access is about to be made; the path may not be there
AccessInit ==
    /\ \E e \in AccessFiles \cup {Absent}, m \in AccessRequests,
          u \in AccessUids, g \in AccessGroups :
         access = [pc |-> "call", entry |-> e, mode |-> m, myuid |-> u,
                   mygroups |-> g, result |-> FALSE]
    /\ norm = NormIdle
    /\ EnsureIdle
    /\ LockIdle

\* fallback_access(path, mode): lines 491-527
AccessCall ==
    /\ access.pc = "call"
    /\ access' = [access EXCEPT
                    !.pc = "done",
                    !.result = IF access.entry.kind = "absent" THEN FALSE
                               ELSE FallbackAccess(StatOf(access.entry),
                                                   access.mode, access.myuid,
                                                   access.mygroups)]
    /\ UNCHANGED <<ensureVars, lockVars, norm>>

AccessNext == AccessCall

AccessSpec == AccessInit /\ [][AccessNext]_vars

\* ------------------------------------------- claims on fallback_access
\* whether bit b (a power of two) is set in x
HasBit(x, b) == (x \div b) % 2 = 1

\* the place of the x bit of the one triplet that decides: the owner's when
\* the caller is the owner, else the group's when the file's group is one of
\* the caller's, else the others'
DecidingTriplet ==
    IF access.myuid = access.entry.uid THEN \o100
    ELSE IF access.entry.gid \in access.mygroups THEN \o10
    ELSE \o1

\* C16: on a path that can be stat'ed fallback_access returns true when no
\* access bit is asked for; for uid 0, true exactly when no execute bit is
\* asked for or one of the three execute bits is set; otherwise whether the
\* bits asked for are all in the one triplet that decides (owner, else group,
\* else other), with no fall-through to a later triplet.
C16_AccessRules ==
    (access.pc = "done" /\ access.entry.kind # "absent") =>
        access.result =
            IF access.mode = 0 THEN TRUE
            ELSE IF access.myuid = 0
            THEN \/ ~HasBit(access.mode, 1)
                 \/ \E x \in {\o100, \o10, \o1} : HasBit(access.entry.mode, x)
            ELSE \A b \in {1, 2, 4} :
                    HasBit(access.mode, b) =>
                        HasBit(access.entry.mode, b * DecidingTriplet)

\* owner 1000, mode 0640: a member of the file's group who is not the owner
\* is refused write, which the owner would be granted
C16_Witness ==
    /\ access.pc = "done"
    /\ access.entry.kind = "file" /\ access.entry.mode = \o640
    /\ access.entry.uid = 1000
    /\ access.myuid = 2000 /\ access.entry.gid \in access.mygroups
    /\ access.mode = W_OK
    /\ access.result = FALSE


\* -------------------------------------------------------- native_normpath
\* A path is a sequence of characters.
MaxLen == 6

\* the characters paths are made of: the separator, the dot and a letter
NormChars == {"/", ".", "a"}

\* "//usr//local/../bin"
ExamplePath ==
    <<"/", "/", "u", "s", "r", "/", "/", "l", "o", "c", "a", "l", "/", ".", ".",
      "/", "b", "i", "n">>

\* the paths native_normpath is given
NormPaths ==
    UNION {[1..n -> NormChars] : n \in 0..MaxLen} \cup {ExamplePath}

\* str.startswith
StartsWith(str, prefix) ==
    Len(str) >= Len(prefix) /\ SubSeq(str, 1, Len(prefix)) = prefix

RECURSIVE Split(_)
\* str.split('/')
Split(str) ==
    IF str = <<>> THEN << <<>> >>
    ELSE LET rest == Split(Tail(str))
         IN IF Head(str) = "/" THEN << <<>> >> \o rest
            ELSE << <<Head(str)>> \o Head(rest) >> \o Tail(rest)

RECURSIVE Join(_)
\* '/'.join(comps)
Join(comps) ==
    IF comps = <<>> THEN <<>>
    ELSE IF Len(comps) = 1 THEN comps[1]
    ELSE comps[1] \o <<"/">> \o Join(Tail(comps))

\* os.path.normpath keeping every leading slash it is given
InitialSlashesCounted(path) ==
    Cardinality({j \in 1..Len(path) : \A m \in 1..j : path[m] = "/"})

\* os.path.normpath: POSIX allows one or two initial slashes, but treats three
\* or more as a single slash
InitialSlashes(path) ==
    IF ~StartsWith(path, <<"/">>) THEN 0
    ELSE IF StartsWith(path, <<"/", "/">>) /\ ~StartsWith(path, <<"/", "/", "/">>)
    THEN 2
    ELSE 1

\* '..'
DotDot == <<".", ".">>

RECURSIVE Collapse(_, _, _)
\* os.path.normpath's loop `for comp in comps`: what new_comps is after it
Collapse(comps, new_comps, initial_slashes) ==
    IF comps = <<>> THEN new_comps
    ELSE LET comp == Head(comps)
             last == Len(new_comps)
         IN Collapse(Tail(comps),
                     IF comp \in {<<>>, <<".">>} THEN new_comps
                     ELSE IF \/ comp # DotDot
                             \/ (initial_slashes = 0 /\ new_comps = <<>>)
                             \/ (new_comps # <<>> /\ new_comps[last] = DotDot)
                     THEN Append(new_comps, comp)
                     ELSE IF new_comps # <<>>
                     THEN SubSeq(new_comps, 1, last - 1)
                     ELSE new_comps,
                     initial_slashes)

\* os.path.normpath(path) of posixpath
PosixNormpath(path) ==
    IF path = <<>> THEN <<".">>
    ELSE LET initial_slashes == InitialSlashes(path)
             joined == Join(Collapse(Split(path), <<>>, initial_slashes))
             whole == [k \in 1..initial_slashes |-> "/"] \o joined
         IN IF whole = <<>> THEN <<".">> ELSE whole

\* native_normpath without the test for a leading '//'
NativeNormpathNoStrip(mypath) == PosixNormpath(mypath)

\* native_normpath(mypath): lines 218-228
NativeNormpath(mypath) ==
    LET newpath == PosixNormpath(mypath)
    IN IF StartsWith(newpath, <<"/", "/">>) THEN Tail(newpath) ELSE newpath

\* a call of native_normpath is about to be made
NormInit ==
    /\ \E path \in NormPaths :
         norm = [pc |-> "call", path |-> path, result |-> <<>>, again |-> <<>>]
    /\ access = AccessIdle
    /\ EnsureIdle
    /\ LockIdle

\* native_normpath(path)
NormCall ==
    /\ norm.pc = "call"
    /\ norm' = [norm EXCEPT !.pc = "once", !.result = NativeNormpath(norm.path)]
    /\ UNCHANGED <<ensureVars, lockVars, access>>

\* native_normpath of what native_normpath returned
NormAgain ==
    /\ norm.pc = "once"
    /\ norm' = [norm EXCEPT !.pc = "twice",
                            !.again = NativeNormpath(norm.result)]
    /\ UNCHANGED <<ensureVars, lockVars, access>>

NormNext == NormCall \/ NormAgain

NormSpec == NormInit /\ [][NormNext]_vars

\* ------------------------------------------- claims on native_normpath
\* the segments of a path: what follows its leading root marker, if it has
\* one, cut at the separators; "/" alone has none
Segments(path) ==
    LET rest == IF StartsWith(path, <<"/">>) THEN Tail(path) ELSE path
    IN IF rest = <<>> THEN <<>> ELSE Split(rest)

NoEmptySegment(path) ==
    \A k \in 1..Len(Segments(path)) : Segments(path)[k] # <<>>

NoDotSegment(path) ==
    \A k \in 1..Len(Segments(path)) : Segments(path)[k] # <<".">>

\* '..' stands only where nothing concrete precedes it: at the front of a
\* relative path
DotDotOnlyLeading(path) ==
    \A k \in 1..Len(Segments(path)) :
        Segments(path)[k] = DotDot =>
            /\ ~StartsWith(path, <<"/">>)
            /\ \A j \in 1..k : Segments(path)[j] = DotDot

\* native_normpath("//usr//local/../bin") is "/usr/bin"
ExampleNormalized ==
    norm.path = ExamplePath =>
        norm.result = <<"/", "u", "s", "r", "/", "b", "i", "n">>

\* C17 as stated: for every path, the empty path included, what
\* native_normpath returns has no empty segment but for one leading root
\* marker, has no '.' segment, and has '..' only where no concrete segment
\* precedes it, never above the root; "//usr//local/../bin" gives "/usr/bin".
C17_NoDotSegmentEver ==
    norm.pc # "call" =>
        /\ NoEmptySegment(norm.result)
        /\ NoDotSegment(norm.result)
        /\ DotDotOnlyLeading(norm.result)
        /\ ExampleNormalized

\* C17: for every path, what native_normpath returns is never empty, has no
\* empty segment but for one leading root marker, has '..' only where no
\* concrete segment precedes it, never above the root, and has no '.' segment
\* unless it is the path "." itself, which is what is returned when nothing is
\* left of a relative path; "//usr//local/../bin" gives "/usr/bin".
C17_NormalForm ==
    norm.pc # "call" =>
        /\ norm.result # <<>>
        /\ NoEmptySegment(norm.result)
        /\ NoDotSegment(norm.result) \/ norm.result = <<".">>
        /\ norm.result = <<".">> => ~StartsWith(norm.path, <<"/">>)
        /\ DotDotOnlyLeading(norm.result)
        /\ ExampleNormalized

C17_Witness ==
    /\ norm.pc = "once"
    /\ norm.path = ExamplePath
    /\ norm.result = <<"/", "u", "s", "r", "/", "b", "i", "n">>

\* C18: native_normpath is idempotent: applied to what it returned it returns
\* the same, for every path, those with two, three or more leading separators
\* included.
C18_Idempotent == norm.pc = "twice" => norm.again = norm.result

C18_Witness ==
    /\ norm.pc = "twice"
    /\ StartsWith(norm.path, <<"/", "/", "/", "a">>)
    /\ norm.result = <<"/", "a">>
    /\ norm.again = norm.result


\* ------------------------------------- further claims on ensure_dirs
\* the walk has made the leaf with the requested mode, under a parent that was
\* there before the call and was stat'ed, and has not failed
LeafMadeDirectly ==
    /\ pc = "cleanup" \/ (Walked /\ result = "true")
    /\ ~ForceTempPerms(args.mode)
    /\ Depth \in created
    /\ fs0[Depth - 1].kind = "dir"
    /\ "walk_stat" \notin failed

\* C19: when the leaf is made with the requested mode and its existing parent's
\* mode has the set-group-id bit, a reset is recorded for the leaf and the
\* cleanup chmods the leaf to the requested mode; when the parent's mode does
\* not have the bit no such reset is recorded.  The parent's numeric group id
\* plays no part.
C19_StickyFromParentMode ==
    LeafMadeDirectly =>
        LET setgid == BitAnd(fs0[Depth - 1].mode, S_ISGID) # 0
        IN /\ setgid <=> \E k \in 1..Len(resets) : resets[k].base = Depth
           /\ (Done /\ setgid) => <<"chmod", Depth>> \in calls

\* the walk is about to mkdir a segment that was not there when it was stat'ed
\* and that another process has made since
RacedInBeforeMkdir ==
    /\ pc = "create"
    /\ raced
    /\ fs0[base].kind = "absent"
    /\ fs[base].kind # "absent"

\* C20: when another process makes a segment between the stat of that segment
\* and its mkdir, so that mkdir fails with EEXIST, ensure_dirs does not fail on
\* that account: it goes on with the walk when the entry is a directory, and
\* returns false only when the entry is not a directory or cannot be stat'ed
\* (or when the chown that follows the mkdir fails).
C20_RaceTolerated ==
    [][(RacedInBeforeMkdir /\ pc' # "create" /\ "mkdir" \notin failed') =>
         /\ (fs[base].kind = "dir" /\ failed' = failed) =>
               pc' \in {"walk", "cleanup"} /\ result' = "none"
         /\ pc' = "done" =>
               /\ result' = "false"
               /\ \/ fs[base].kind # "dir"
                  \/ "safe_mkdir_stat" \in failed'
                  \/ "chown_create" \in failed'
      ]_vars

C20_Witness ==
    /\ Walked /\ result = "true" /\ raced
    /\ \E k \in 1..Depth :
         /\ fs0[k].kind = "absent"
         /\ k \notin created
         /\ fs[k].kind = "dir"


\* ------------------------------------- further claims on FsLock
\* a step of acquire_write_lock(True) or acquire_read_lock(True) on h
BlockingRequest(h) ==
    \/ EnactChange(h, "write", WriteFlags, TRUE)
    \/ EnactChange(h, "read", ReadFlags, TRUE)

\* a blocking acquire never returns false
BlockingNeverFalse ==
    [][\A h \in Handles : BlockingRequest(h) => ret'[h] # "false"]_vars

\* h's blocked acquire has returned true
ServedTrue(h) == waiting[h] = NotWaiting /\ ret[h] = "true"

UndisturbedWalk ==
    /\ fs0[Depth].kind = "absent"
    /\ failed = {}
    /\ ~raced

\* C22: when ensure_dirs walks a path that did not fully exist it never changes
\* the owner or group of a directory that was there before the call: chown is
\* applied only to directories the call itself made, also when resets were
\* recorded for intermediate directories that were there before.
C22_PreexistingOwnerKept ==
    UndisturbedWalk =>
        /\ \A k \in 0..Depth :
              fs0[k].kind = "dir" =>
                  fs[k].uid = fs0[k].uid /\ fs[k].gid = fs0[k].gid
        /\ \A k \in 0..Depth : <<"chown", k>> \in calls => k \in created

====
